---- MODULE Spec2Model ----
(***************************************************************************)
(* Model of entmoot/learning/tree_model.py: the regressor adapters         *)
(* EntingRegressor (Variant A) and MisicRegressor (Variant B), which wrap  *)
(* a clonable tree-ensemble estimator and an uncertainty estimator.        *)
(*                                                                         *)
(* Python values are encoded with one TLA+ type per field:                 *)
(*   - an object reference is a record [kind, id]; None is PyNone;         *)
(*   - an optional scalar (a seed, an option value) is a set: {} is        *)
(*     Python's None / "not set", {v} is the value v;                      *)
(*   - keyword arguments are a record [keys, vals]: keys are the names     *)
(*     that were passed, vals their values.                                *)
(* The collaborators (the tree-ensemble estimator, the uncertainty         *)
(* estimator, the tree-dictionary ordering and GbmModel) are recording     *)
(* doubles: their results are symbolic terms over what they were given.    *)
(***************************************************************************)
EXTENDS Integers, Sequences, FiniteSets, TLC

\* Bounds of the model.
NumTrainingSets == 2
MaxRows == 2
MaxAdapters == 3

VARIABLES
    adapters,    \* the adapter objects, in order of construction: their fields
    estimators,  \* the tree-ensemble estimators: their parameters
    stds,        \* the uncertainty estimators: what they were last updated from
    artifact,    \* the file tree_dict_next.json
    last,        \* the last call: its arguments and its outcome
    fitCalled    \* the adapters on which fit has been called

vars == <<adapters, estimators, stds, artifact, last, fitCalled>>

----------------------------------------------------------------------------
\* Values

PyNone == [kind |-> "None", id |-> 0]
EstRef(i) == [kind |-> "estimator", id |-> i]
StdRef(i) == [kind |-> "std", id |-> i]
AdapterRef(i) == [kind |-> "adapter", id |-> i]

ParamNames == {"random_state", "verbose", "min_child_samples"}
OptionNames == {"min_child_samples", "verbose"}

\* An estimator on which no parameter was set explicitly.
DefaultParams == [k \in ParamNames |-> {}]

NoKw == [keys |-> {}, vals |-> DefaultParams]

\* Training sets (X, y): d rows, one target per row.
TrainingSet(d) == [X |-> [i \in 1..d |-> 10 * d + i], y |-> [i \in 1..d |-> 100 * d + i]]
TrainingSets == {TrainingSet(d) : d \in 1..NumTrainingSets}
NoData == [X |-> <<>>, y |-> <<>>]

\* Prediction inputs: 1..MaxRows rows.
PredictInputs == {[i \in 1..n |-> i] : n \in 1..MaxRows}

CatIdxValues == {<<>>, <<0>>}

NoBooster == [fitted |-> FALSE, data |-> NoData, categorical_feature |-> {}]
\* The regressor_ attribute.  via is {} when regressor_ is a clone of a
\* tree-ensemble estimator (params, booster); when the base estimator is
\* itself an adapter, regressor_ is a clone of that adapter: via then holds
\* the clone's own fields, and params and booster are those of the clone's
\* base estimator and of the clone's regressor_.
NoRegressor == [present |-> FALSE, params |-> DefaultParams, booster |-> NoBooster,
                via |-> {}]
NoDump == [params |-> DefaultParams, booster |-> NoBooster]
NoGbm == [present |-> FALSE, trees |-> NoDump, cat_column |-> <<>>]
NoStdState == [updated |-> FALSE, data |-> NoData, gbm |-> NoGbm, cat_column |-> <<>>]
NoFile == [written |-> FALSE, content |-> NoDump]

NoExc == [type |-> "none", obj |-> "", attr |-> ""]
AttributeError(obj, attr) == [type |-> "AttributeError", obj |-> obj, attr |-> attr]
\* An exception raised inside a collaborator (training, update, file write).
UpstreamError(callee) == [type |-> "UpstreamError", obj |-> callee, attr |-> ""]
\* The tree-ensemble estimator's own error for predict on an untrained clone.
LGBMNotFittedError == [type |-> "LGBMNotFittedError", obj |-> "LGBMRegressor", attr |-> ""]
\* sklearn.base.clone refusing an estimator whose constructor alters its
\* arguments.
CloneError == [type |-> "RuntimeError", obj |-> "clone", attr |-> ""]
\* A keyword argument the callee's signature does not have.
TypeError(callee, kw) == [type |-> "TypeError", obj |-> callee, attr |-> kw]

NoRet == [kind |-> "None", mean |-> <<>>, std |-> <<>>, gbm |-> NoGbm]

\* The record of a call: the operation, the adapter it was called on, its
\* arguments, and its outcome (the exception raised or the value returned,
\* and the collaborator calls it made).
NoCall == [op |-> "none", self |-> 0, data |-> NoData, options |-> NoKw, X |-> <<>>,
           return_std |-> FALSE, scaled |-> FALSE, base_arg |-> PyNone, std_arg |-> PyNone,
           exc |-> NoExc, ret |-> NoRet, calls |-> <<>>]

----------------------------------------------------------------------------
\* Class hierarchy: class MisicRegressor(EntingRegressor).

IsSubclass(c, base) ==
    \/ c = base
    \/ c = "MisicRegressor" /\ base = "EntingRegressor"

\* isinstance(ref, cls) for a reference into the adapters objs.
IsInstance(objs, ref, cls) ==
    /\ ref.kind = "adapter"
    /\ IsSubclass(objs[ref.id].cls, cls)

----------------------------------------------------------------------------
\* Constructors

NewAdapter(cls, base_estimator, std_estimator, random_state, cat_idx) ==
    [cls |-> cls, random_state |-> random_state, base_estimator |-> base_estimator,
     std_estimator |-> std_estimator, cat_idx |-> cat_idx, regressor_ |-> NoRegressor]

EntingInit(objs, base_estimator, std_estimator, random_state, cat_idx) ==
    LET self == NewAdapter("EntingRegressor", base_estimator, std_estimator,
                           random_state, cat_idx)
    IN IF IsInstance(objs, base_estimator, "EntingRegressor")
       THEN [self EXCEPT !.base_estimator = objs[base_estimator.id].base_estimator,
                         !.std_estimator = objs[base_estimator.id].std_estimator]
       ELSE self

MisicInit(objs, base_estimator, std_estimator, random_state, cat_idx) ==
    LET self == NewAdapter("MisicRegressor", base_estimator, std_estimator,
                           random_state, cat_idx)
    IN IF IsInstance(objs, base_estimator, "MisicRegressor")
       THEN [self EXCEPT !.base_estimator = objs[base_estimator.id].base_estimator,
                         !.std_estimator = objs[base_estimator.id].std_estimator]
       ELSE self

Construct(objs, cls, base_estimator, std_estimator, random_state, cat_idx) ==
    IF cls = "MisicRegressor"
    THEN MisicInit(objs, base_estimator, std_estimator, random_state, cat_idx)
    ELSE EntingInit(objs, base_estimator, std_estimator, random_state, cat_idx)

----------------------------------------------------------------------------
\* Execution of one call.  A frame carries the heap h (the objects), the
\* exception in flight (NoExc while the call is still running), the value to
\* return, and the collaborator calls made so far, in order.

Heap == [adapters |-> adapters, estimators |-> estimators, stds |-> stds,
         artifact |-> artifact]

Start(h) == [h |-> h, exc |-> NoExc, ret |-> NoRet, calls |-> <<>>]
Running(f) == f.exc = NoExc
Raise(f, e) == [f EXCEPT !.exc = e]

Called(callee, data, kw, gbm, cat, X, scaled) ==
    [callee |-> callee, data |-> data, kw |-> kw, gbm |-> gbm, cat |-> cat,
     X |-> X, scaled |-> scaled]

Log(f, c) == [f EXCEPT !.calls = Append(@, c)]

\* estimator.set_params(**kw) of the tree-ensemble estimator: the parameters
\* named in kw take kw's values, the others keep theirs.
MergeParams(params, kw) ==
    [k \in ParamNames |-> IF k \in kw.keys THEN kw.vals[k] ELSE params[k]]

\* if not "min_child_samples" in params.keys():
\*     params.update({"min_child_samples":2})
WithDefault(kw) ==
    IF "min_child_samples" \notin kw.keys
    THEN [keys |-> kw.keys \cup {"min_child_samples"},
          vals |-> [kw.vals EXCEPT !.min_child_samples = {2}]]
    ELSE kw

\* The tree-ensemble estimator (or None) that set_params on ref ends at, and
\* the keyword arguments that arrive there: an adapter's set_params adds its
\* default and forwards to its own base estimator.
RECURSIVE Target(_, _)
Target(objs, ref) ==
    IF ref.kind = "adapter" THEN Target(objs, objs[ref.id].base_estimator) ELSE ref

ArrivingKw(ref, kw) == IF ref.kind = "adapter" THEN WithDefault(kw) ELSE kw

\* self.base_estimator.set_params(**kw)
BaseSetParams(f, self, kw) ==
    LET base == f.h.adapters[self].base_estimator
        target == Target(f.h.adapters, base)
    IN IF ~Running(f) THEN f
       ELSE IF target = PyNone THEN Raise(f, AttributeError("NoneType", "set_params"))
       ELSE Log([f EXCEPT !.h.estimators[target.id] = MergeParams(@, ArrivingKw(base, kw))],
                Called("base_estimator.set_params", NoData, kw, NoGbm, <<>>, <<>>, FALSE))

\* random_state=self.random_state, verbose=-1
FitKw(random_state) ==
    [keys |-> {"random_state", "verbose"},
     vals |-> [DefaultParams EXCEPT !.random_state = random_state, !.verbose = {-1}]]

\* sklearn.base.clone: a new unfitted estimator with the same parameters.
Clone(params) == [present |-> TRUE, params |-> params, booster |-> NoBooster, via |-> {}]

\* sklearn.base.clone of an adapter: a new adapter of the same class, without
\* regressor_, around a clone of its base estimator and a deep copy of its
\* uncertainty estimator.
CloneAdapter(h, a) ==
    [present |-> TRUE,
     params |-> IF a.base_estimator = PyNone THEN DefaultParams
                ELSE h.estimators[a.base_estimator.id],
     booster |-> NoBooster,
     via |-> {[cls |-> a.cls, random_state |-> a.random_state, cat_idx |-> a.cat_idx,
               has_base |-> a.base_estimator # PyNone,
               std |-> IF a.std_estimator = PyNone THEN {}
                       ELSE {h.stds[a.std_estimator.id]},
               has_regressor |-> FALSE]}]

\* clone(base_estimator); the clone of an adapter whose own base estimator
\* is an adapter is refused, because the constructor unwraps it.
CanClone(h, base) ==
    base.kind = "adapter" => h.adapters[base.id].base_estimator.kind # "adapter"

CloneOf(h, base) ==
    IF base.kind = "adapter" THEN CloneAdapter(h, h.adapters[base.id])
    ELSE Clone(h.estimators[base.id])

\* Mutant: the fitted ensemble is one object shared by every adapter built
\* around the same base estimator.
CloneBase_Shared(f, self) ==
    LET base == f.h.adapters[self].base_estimator
    IN IF ~Running(f) THEN f
       ELSE Log([f EXCEPT !.h.adapters =
                     [i \in DOMAIN @ |->
                         IF @[i].base_estimator = base
                         THEN [@[i] EXCEPT !.regressor_ = CloneOf(f.h, base)]
                         ELSE @[i]]],
                Called("clone", NoData, NoKw, NoGbm, <<>>, <<>>, FALSE))

\* self.regressor_ = clone(base_estimator)
CloneBase(f, self) ==
    LET base == f.h.adapters[self].base_estimator
    IN IF ~Running(f) THEN f
       ELSE IF ~CanClone(f.h, base) THEN Raise(f, CloneError)
       ELSE Log([f EXCEPT !.h.adapters[self].regressor_ = CloneOf(f.h, base)],
                Called("clone", NoData, NoKw, NoGbm, <<>>, <<>>, FALSE))

\* Mutant: an absent uncertainty estimator is skipped silently.
StdUpdate_SkipNone(f, self, data, gbm, fault) ==
    LET std == f.h.adapters[self].std_estimator
        cat == f.h.adapters[self].cat_idx
    IN IF ~Running(f) \/ std = PyNone THEN f
       ELSE IF fault = "update" THEN Raise(f, UpstreamError("std_estimator.update"))
       ELSE Log([f EXCEPT !.h.stds[std.id] =
                     [updated |-> TRUE, data |-> data, gbm |-> gbm, cat_column |-> cat]],
                Called("std_estimator.update", data, NoKw, gbm, cat, <<>>, FALSE))

\* self.std_estimator.update(X, y, cat_column=self.cat_idx)            (Variant A)
\* self.std_estimator.update(X, y, gbm_model, cat_column=self.cat_idx) (Variant B)
StdUpdate(f, self, data, gbm, fault) ==
    LET std == f.h.adapters[self].std_estimator
        cat == f.h.adapters[self].cat_idx
    IN IF ~Running(f) THEN f
       ELSE IF std = PyNone THEN Raise(f, AttributeError("NoneType", "update"))
       ELSE IF fault = "update" THEN Raise(f, UpstreamError("std_estimator.update"))
       ELSE Log([f EXCEPT !.h.stds[std.id] =
                     [updated |-> TRUE, data |-> data, gbm |-> gbm, cat_column |-> cat]],
                Called("std_estimator.update", data, NoKw, gbm, cat, <<>>, FALSE))

\* EntingRegressor.fit(X, y) on regressor_ when regressor_ is the clone of an
\* adapter: the clone configures and clones its own base estimator, updates
\* its own copy of the uncertainty estimator and trains.  The result is the
\* frame with regressor_ as the call leaves it.
CloneFit(f, self, data, fault) ==
    LET reg == f.h.adapters[self].regressor_
        c == CHOOSE v \in reg.via : TRUE
        configured == [reg EXCEPT !.params = MergeParams(@, FitKw(c.random_state))]
        cloned == [configured EXCEPT !.via = {[c EXCEPT !.has_regressor = TRUE]},
                                     !.booster = NoBooster]
        updated == [cloned EXCEPT !.via =
                        {[c EXCEPT !.has_regressor = TRUE,
                                   !.std = {[updated |-> TRUE, data |-> data, gbm |-> NoGbm,
                                             cat_column |-> c.cat_idx]}]}]
        trained == [updated EXCEPT !.booster =
                        [fitted |-> TRUE, data |-> data,
                         categorical_feature |-> IF c.cat_idx # <<>> THEN {c.cat_idx}
                                                 ELSE {}]]
        Leave(r) == [f EXCEPT !.h.adapters[self].regressor_ = r]
    IN IF ~c.has_base THEN Raise(f, AttributeError("NoneType", "set_params"))
       ELSE IF c.std = {} THEN Raise(Leave(cloned), AttributeError("NoneType", "update"))
       ELSE IF fault = "update"
            THEN Raise(Leave(cloned), UpstreamError("std_estimator.update"))
       ELSE IF fault = "train" THEN Raise(Leave(updated), UpstreamError("regressor_.fit"))
       ELSE Leave(trained)

\* if self.cat_idx: self.regressor_.fit(X, y, categorical_feature=self.cat_idx)
\* else:            self.regressor_.fit(X, y)
RegressorFit(f, self, data, fault) ==
    LET cat == f.h.adapters[self].cat_idx
        cf == IF cat # <<>> THEN {cat} ELSE {}
        nested == f.h.adapters[self].regressor_.via # {}
        g == CloneFit(f, self, data, fault)
    IN IF ~Running(f) THEN f
       ELSE IF nested /\ cf # {} THEN Raise(f, TypeError("fit", "categorical_feature"))
       ELSE IF nested
            THEN IF Running(g)
                 THEN Log(g, Called("regressor_.fit", data, NoKw, NoGbm, <<>>, <<>>, FALSE))
                 ELSE g
       ELSE IF fault = "train" THEN Raise(f, UpstreamError("regressor_.fit"))
       ELSE Log([f EXCEPT !.h.adapters[self].regressor_.booster =
                     [fitted |-> TRUE, data |-> data, categorical_feature |-> cf]],
                Called("regressor_.fit", data, NoKw, NoGbm, IF cf = {} THEN <<>> ELSE cat,
                       <<>>, FALSE))

\* regressor_._Booster.dump_model(): the trees of the fitted ensemble.
DumpModel(reg) == [params |-> reg.params, booster |-> reg.booster]

\* GbmModel(order_tree_model_dict(dump, cat_column=cat))
GbmModel(dump, cat) == [present |-> TRUE, trees |-> dump, cat_column |-> cat]

\* Mutant: the export releases the booster after dumping it.
GetGbmModel_FreesBooster(f, self, fault) ==
    LET me == f.h.adapters[self]
        reg == me.regressor_
    IN IF ~Running(f) THEN f
       ELSE IF ~reg.present THEN Raise(f, AttributeError(me.cls, "regressor_"))
       ELSE IF reg.via # {} THEN Raise(f, AttributeError("EntingRegressor", "_Booster"))
       ELSE IF ~reg.booster.fitted THEN Raise(f, AttributeError("NoneType", "dump_model"))
       ELSE IF fault = "export" THEN Raise(f, UpstreamError("open"))
       ELSE Log([f EXCEPT !.h.artifact = [written |-> TRUE, content |-> DumpModel(reg)],
                          !.h.adapters[self].regressor_.booster = NoBooster,
                          !.ret = [NoRet EXCEPT !.kind = "gbm",
                                                !.gbm = GbmModel(DumpModel(reg), me.cat_idx)]],
                Called("get_gbm_model", NoData, NoKw, NoGbm, me.cat_idx, <<>>, FALSE))

\* EntingRegressor.get_gbm_model (inherited by MisicRegressor)
GetGbmModel(f, self, fault) ==
    LET me == f.h.adapters[self]
        reg == me.regressor_
    IN IF ~Running(f) THEN f
       ELSE IF ~reg.present THEN Raise(f, AttributeError(me.cls, "regressor_"))
       ELSE IF reg.via # {} THEN Raise(f, AttributeError("EntingRegressor", "_Booster"))
       ELSE IF ~reg.booster.fitted THEN Raise(f, AttributeError("NoneType", "dump_model"))
       ELSE IF fault = "export" THEN Raise(f, UpstreamError("open"))
       ELSE Log([f EXCEPT !.h.artifact = [written |-> TRUE, content |-> DumpModel(reg)],
                          !.ret = [NoRet EXCEPT !.kind = "gbm",
                                                !.gbm = GbmModel(DumpModel(reg), me.cat_idx)]],
                Called("get_gbm_model", NoData, NoKw, NoGbm, me.cat_idx, <<>>, FALSE))

\* The value a call returns when it does not raise; fit returns None.
ReturnNone(f) == IF Running(f) THEN [f EXCEPT !.ret = NoRet] ELSE f

\* Mutant: Variant A trains the ensemble before updating the uncertainty
\* estimator.
EntingFit_TrainFirst(h, self, data, fault) ==
    LET me == h.adapters[self]
        f1 == BaseSetParams(Start(h), self, FitKw(me.random_state))
        f2 == CloneBase(f1, self)
        f3 == RegressorFit(f2, self, data, fault)
        f4 == StdUpdate(f3, self, data, NoGbm, fault)
    IN ReturnNone(f4)

\* EntingRegressor.fit
EntingFit(h, self, data, fault) ==
    LET me == h.adapters[self]
        f1 == BaseSetParams(Start(h), self, FitKw(me.random_state))
        f2 == CloneBase(f1, self)
        f3 == StdUpdate(f2, self, data, NoGbm, fault)
        f4 == RegressorFit(f3, self, data, fault)
    IN ReturnNone(f4)

\* MisicRegressor.fit
MisicFit(h, self, data, fault) ==
    LET me == h.adapters[self]
        f1 == BaseSetParams(Start(h), self, FitKw(me.random_state))
        f2 == CloneBase(f1, self)
        f3 == RegressorFit(f2, self, data, fault)
        f4 == GetGbmModel(f3, self, fault)
        f5 == StdUpdate(f4, self, data, f4.ret.gbm, fault)
    IN ReturnNone(f5)

\* Dynamic dispatch of fit on the adapter's class.
FitCall(h, self, data, fault) ==
    IF h.adapters[self].cls = "MisicRegressor"
    THEN MisicFit(h, self, data, fault)
    ELSE EntingFit(h, self, data, fault)

\* Mutant: min_child_samples is forced to 2 even when it was supplied.
SetParamsCall_ForceDefault(h, self, options) ==
    BaseSetParams(Start(h), self,
                  [keys |-> options.keys \cup {"min_child_samples"},
                   vals |-> [options.vals EXCEPT !.min_child_samples = {2}]])

\* EntingRegressor.set_params (inherited by MisicRegressor)
SetParamsCall(h, self, options) ==
    ReturnNone(BaseSetParams(Start(h), self, WithDefault(options)))

\* regressor_.predict(X) of the tree-ensemble estimator: one value per row.
LgbmPredict(reg, X) ==
    [i \in 1..Len(X) |-> [model |-> DumpModel(reg), state |-> NoStdState, row |-> X[i],
                          scaled |-> FALSE]]

\* std_estimator.predict(X, scaled=scaled): one value per row.
StdPredict(state, X, scaled) ==
    [i \in 1..Len(X) |-> [model |-> NoDump, state |-> state, row |-> X[i],
                          scaled |-> scaled]]

\* self.regressor_.predict(X)
RegressorPredict(f, self, X) ==
    LET me == f.h.adapters[self]
        reg == me.regressor_
    IN IF ~Running(f) THEN f
       ELSE IF ~reg.present THEN Raise(f, AttributeError(me.cls, "regressor_"))
       ELSE IF \E c \in reg.via : ~c.has_regressor
            THEN Raise(f, AttributeError("EntingRegressor", "regressor_"))
       ELSE IF ~reg.booster.fitted THEN Raise(f, LGBMNotFittedError)
       ELSE Log([f EXCEPT !.ret = [NoRet EXCEPT !.kind = "mean", !.mean = LgbmPredict(reg, X)]],
                Called("regressor_.predict", NoData, NoKw, NoGbm, <<>>, X, FALSE))

\* self.std_estimator.predict(X, scaled=scaled); return mean, std
StdEstimatorPredict(f, self, X, scaled) ==
    LET std == f.h.adapters[self].std_estimator
    IN IF ~Running(f) THEN f
       ELSE IF std = PyNone THEN Raise(f, AttributeError("NoneType", "predict"))
       ELSE IF ~f.h.stds[std.id].updated
            THEN Raise(f, UpstreamError("std_estimator.predict"))
       ELSE Log([f EXCEPT !.ret = [@ EXCEPT !.kind = "pair",
                                            !.std = StdPredict(f.h.stds[std.id], X, scaled)]],
                Called("std_estimator.predict", NoData, NoKw, NoGbm, <<>>, X, scaled))

\* Mutant: the scaled flag is not passed on (the estimator's default is used).
PredictCall_DropsScaled(h, self, X, return_std, scaled) ==
    LET f1 == RegressorPredict(Start(h), self, X)
    IN IF return_std THEN StdEstimatorPredict(f1, self, X, TRUE) ELSE f1

\* Mutant: an adapter without a fitted ensemble predicts nothing instead of
\* raising.
PredictCall_Lenient(h, self, X, return_std, scaled) ==
    LET f1 == IF h.adapters[self].regressor_.present
              THEN RegressorPredict(Start(h), self, X)
              ELSE [Start(h) EXCEPT !.ret = [NoRet EXCEPT !.kind = "mean"]]
    IN IF return_std THEN StdEstimatorPredict(f1, self, X, scaled) ELSE f1

\* EntingRegressor.predict (inherited by MisicRegressor)
PredictCall(h, self, X, return_std, scaled) ==
    LET f1 == RegressorPredict(Start(h), self, X)
    IN IF return_std THEN StdEstimatorPredict(f1, self, X, scaled) ELSE f1

\* A call raising an exception returns no value.
Result(f) == IF Running(f) THEN f ELSE [f EXCEPT !.ret = NoRet]


----------------------------------------------------------------------------
\* Inputs

Classes == {"EntingRegressor", "MisicRegressor"}
Faults == {"none", "update", "train", "export"}
Seeds == {{}, {0}}

\* **options of set_params: any subset of the option names, with values.
OptionSets ==
    {[keys |-> ks, vals |-> [k \in ParamNames |->
                                IF k \notin ks THEN {}
                                ELSE IF k = "min_child_samples" THEN {5} ELSE {-1}]] :
        ks \in SUBSET OptionNames}

----------------------------------------------------------------------------
\* Operations

Commit(f, call) ==
    /\ adapters' = f.h.adapters
    /\ estimators' = f.h.estimators
    /\ stds' = f.h.stds
    /\ artifact' = f.h.artifact
    /\ last' = [call EXCEPT !.exc = f.exc, !.ret = Result(f).ret, !.calls = f.calls]

DoFit(self, data, fault) ==
    /\ Commit(FitCall(Heap, self, data, fault),
              [NoCall EXCEPT !.op = "fit", !.self = self, !.data = data])
    /\ fitCalled' = fitCalled \cup {self}

\* adapter.fit(X, y) with collaborators that do not fail
Fit ==
    \E self \in DOMAIN adapters, data \in TrainingSets : DoFit(self, data, "none")

\* adapter.fit(X, y) where the uncertainty update, the training or the export
\* may raise
FitFaulty ==
    \E self \in DOMAIN adapters, data \in TrainingSets, fault \in Faults :
        DoFit(self, data, fault)

\* adapter.set_params(**options)
SetParams ==
    \E self \in DOMAIN adapters, options \in OptionSets :
        /\ Commit(SetParamsCall(Heap, self, options),
                  [NoCall EXCEPT !.op = "set_params", !.self = self, !.options = options])
        /\ UNCHANGED fitCalled

\* adapter.predict(X, return_std, scaled)
Predict ==
    \E self \in DOMAIN adapters, X \in PredictInputs, return_std \in BOOLEAN,
       scaled \in BOOLEAN :
        /\ Commit(PredictCall(Heap, self, X, return_std, scaled),
                  [NoCall EXCEPT !.op = "predict", !.self = self, !.X = X,
                                 !.return_std = return_std, !.scaled = scaled])
        /\ UNCHANGED fitCalled

\* adapter.get_gbm_model()
Export ==
    \E self \in DOMAIN adapters :
        /\ Commit(GetGbmModel(Start(Heap), self, "none"),
                  [NoCall EXCEPT !.op = "get_gbm_model", !.self = self])
        /\ UNCHANGED fitCalled

\* cls(base_estimator, std_estimator, random_state, cat_idx)
New ==
    \E cls \in Classes, std \in {PyNone, StdRef(1), StdRef(2)},
       base \in {PyNone, EstRef(1)} \cup {AdapterRef(i) : i \in DOMAIN adapters} :
        /\ Len(adapters) < MaxAdapters
        /\ adapters' = Append(adapters, Construct(adapters, cls, base, std, {}, <<>>))
        /\ last' = [NoCall EXCEPT !.op = "construct", !.self = Len(adapters) + 1,
                                  !.base_arg = base, !.std_arg = std]
        /\ UNCHANGED <<estimators, stds, artifact, fitCalled>>

----------------------------------------------------------------------------
\* Specifications

Collaborators ==
    /\ estimators = [i \in 1..2 |-> DefaultParams]
    /\ stds = [i \in 1..2 |-> NoStdState]
    /\ artifact = NoFile
    /\ last = NoCall
    /\ fitCalled = {}

\* One adapter of either variant, with or without each collaborator.
Init ==
    /\ Collaborators
    /\ \E cls \in Classes, base \in {PyNone, EstRef(1)}, std \in {PyNone, StdRef(1)},
          seed \in Seeds, cat \in CatIdxValues :
        adapters = <<Construct(<<>>, cls, base, std, seed, cat)>>

Next == Fit \/ SetParams \/ Predict \/ Export

Spec == Init /\ [][Next]_vars

\* Two adapters of either variant.  The second is constructed with the
\* first one, the first one's base estimator or another base estimator as
\* its base_estimator argument, and with the first one's uncertainty
\* estimator or another one as its std_estimator argument.
InitShared ==
    /\ Collaborators
    /\ \E cls1 \in Classes, cls2 \in Classes,
          base \in {AdapterRef(1), EstRef(1), EstRef(2)},
          std \in {StdRef(1), StdRef(2)} :
        LET first == <<Construct(<<>>, cls1, EstRef(1), StdRef(1), {}, <<>>)>>
        IN adapters = Append(first, Construct(first, cls2, base, std, {0}, <<>>))

\* The calls that change state; what predict returns in each state reached
\* is computed by PredictCall.
NextShared == Fit \/ SetParams

SpecShared == InitShared /\ [][NextShared]_vars

\* One adapter of either variant with its own collaborators, whose
\* collaborators may fail.
InitFail ==
    /\ Collaborators
    /\ \E cls \in Classes, cat \in CatIdxValues :
        adapters = <<Construct(<<>>, cls, EstRef(1), StdRef(1), {}, cat)>>

NextFail == FitFaulty \/ SetParams \/ Predict \/ Export

SpecFail == InitFail /\ [][NextFail]_vars

\* Construction of adapters, around estimators and around other adapters.
InitCtor ==
    /\ Collaborators
    /\ adapters = <<>>

NextCtor == New

SpecCtor == InitCtor /\ [][NextCtor]_vars


----------------------------------------------------------------------------
\* Vocabulary of the properties

Me == adapters[last.self]

\* The adapter holds a trained ensemble: predict(X) returns a value.
Fitted(a) == a.regressor_.present /\ a.regressor_.booster.fitted

\* Positions in the last call's log of the calls made to callee.
CallsTo(callee) == {i \in DOMAIN last.calls : last.calls[i].callee = callee}

\* The error kinds of the specification, by cause.  Python raises all of
\* them as AttributeError: on the adapter, which has no regressor_ attribute
\* before fit; on None, which stands where a collaborator is absent.
NotFittedError(e) == e.type = "AttributeError" /\ e.attr = "regressor_"
ConfigurationError(e) == e.type = "AttributeError" /\ e.obj = "NoneType"

\* What the fitted ensemble of adapter a predicts for X.
PointPrediction(a, X) ==
    [i \in 1..Len(X) |-> [model |-> [params |-> a.regressor_.params,
                                     booster |-> a.regressor_.booster],
                          state |-> NoStdState, row |-> X[i], scaled |-> FALSE]]

----------------------------------------------------------------------------
\* C1: within one fit, Variant A updates the uncertainty estimator before it
\* trains the cloned ensemble, from (X, y, cat_idx) alone, and never exports;
\* Variant B trains the clone, then exports it, and only then updates the
\* uncertainty estimator from (X, y, exported structure, cat_idx).
C1_FitOrdering ==
    last.op = "fit" =>
        LET cs == last.calls
            upd == CallsTo("std_estimator.update")
            trn == CallsTo("regressor_.fit")
            exp == CallsTo("get_gbm_model")
        IN /\ Cardinality(upd) <= 1 /\ Cardinality(trn) <= 1
           /\ last.exc = NoExc => upd # {} /\ trn # {}
           /\ \A u \in upd : cs[u].data = last.data /\ cs[u].cat = Me.cat_idx
           /\ Me.cls = "EntingRegressor" =>
                /\ exp = {}
                /\ \A u \in upd : ~cs[u].gbm.present
                /\ \A u \in upd, t \in trn : u < t
           /\ Me.cls = "MisicRegressor" =>
                \A u \in upd :
                    /\ \E t \in trn, e \in exp : t < e /\ e < u
                    /\ cs[u].gbm.present
                    /\ cs[u].gbm.trees.booster.fitted
                    /\ cs[u].gbm.trees.booster.data = last.data

C1_Witness ==
    /\ last.op = "fit" /\ last.exc = NoExc
    /\ Me.cls = "MisicRegressor" /\ Me.cat_idx # <<>>
    /\ CallsTo("std_estimator.update") # {}

\* C2: on an adapter on which fit was never called, predict (with any flags)
\* and get_gbm_model raise the not-fitted error, return nothing, call no
\* collaborator and change nothing, the exported file included.
C2_UnfittedRaises ==
    [][(last'.op \in {"predict", "get_gbm_model"} /\ last'.self \notin fitCalled')
        => /\ NotFittedError(last'.exc)
           /\ last'.ret = NoRet
           /\ last'.calls = <<>>
           /\ UNCHANGED <<adapters, estimators, stds, artifact>>]_vars

C2_Witness ==
    /\ last.op = "predict" /\ last.return_std /\ ~last.scaled
    /\ last.self \notin fitCalled
    /\ last.exc = AttributeError(Me.cls, "regressor_")

\* C5: set_params forwards to the base estimator exactly the options it was
\* given, plus min_child_samples=2 when and only when min_child_samples was
\* not given; a given min_child_samples is forwarded as given, and no other
\* parameter of the base estimator changes.
C5_SetParamsDefault ==
    [][(last'.op = "set_params" /\ adapters[last'.self].base_estimator # PyNone)
        => LET opts == last'.options
               b == adapters[last'.self].base_estimator.id
           IN /\ last'.exc = NoExc
              /\ Len(last'.calls) = 1
              /\ last'.calls[1].callee = "base_estimator.set_params"
              /\ last'.calls[1].kw.keys = opts.keys \cup {"min_child_samples"}
              /\ \A k \in opts.keys : last'.calls[1].kw.vals[k] = opts.vals[k]
              /\ "min_child_samples" \notin opts.keys
                    => last'.calls[1].kw.vals["min_child_samples"] = {2}
              /\ estimators'[b] =
                    [k \in ParamNames |->
                        IF k \in opts.keys THEN opts.vals[k]
                        ELSE IF k = "min_child_samples" THEN {2}
                        ELSE estimators[b][k]]]_vars

C5_Witness ==
    /\ last.op = "set_params" /\ last.exc = NoExc
    /\ "min_child_samples" \in last.options.keys
    /\ estimators[Me.base_estimator.id]["min_child_samples"] = {5}
    /\ Fitted(Me)

\* C7: on a fitted adapter, predict and get_gbm_model leave the fitted
\* ensemble, the base estimator's configuration, cat_idx and the uncertainty
\* estimator's state as they were, so predict returns the same for the same
\* input afterwards.
C7_ReadOnly ==
    [][(last'.op \in {"predict", "get_gbm_model"} /\ Fitted(adapters[last'.self]))
        => /\ UNCHANGED <<adapters, estimators, stds>>
           /\ \A X \in PredictInputs, return_std \in BOOLEAN :
                LET before == PredictCall(Heap, last'.self, X, return_std, TRUE)
                    after == PredictCall(Heap', last'.self, X, return_std, TRUE)
                IN before.exc = after.exc /\ before.ret = after.ret]_vars

C7_Witness ==
    /\ last.op = "get_gbm_model" /\ last.exc = NoExc
    /\ artifact.written
    /\ Fitted(Me)

\* C8: once fit has succeeded, predict(X) returns the ensemble's point
\* predictions, one per row, without consulting the uncertainty estimator;
\* predict(X, return_std=True, scaled=s) returns that mean paired with the
\* uncertainty estimator's prediction for X under scaled=s, of the same
\* number of rows.
C8_PredictResult ==
    last.op = "predict" =>
        LET stdCalls == CallsTo("std_estimator.predict")
        IN /\ (Fitted(Me) /\ (last.return_std => Me.std_estimator # PyNone
                                                 /\ stds[Me.std_estimator.id].updated))
                => last.exc = NoExc
           /\ last.exc = NoExc =>
                /\ Len(last.ret.mean) = Len(last.X)
                /\ last.ret.mean = PointPrediction(Me, last.X)
                /\ ~last.return_std => last.ret.kind = "mean" /\ stdCalls = {}
                /\ last.return_std =>
                     /\ last.ret.kind = "pair"
                     /\ Len(last.ret.std) = Len(last.ret.mean)
                     /\ Cardinality(stdCalls) = 1
                     /\ \A c \in stdCalls : /\ last.calls[c].scaled = last.scaled
                                            /\ last.calls[c].X = last.X
                     /\ \A i \in 1..Len(last.X) :
                            /\ last.ret.std[i].state = stds[Me.std_estimator.id]
                            /\ last.ret.std[i].row = last.X[i]
                            /\ last.ret.std[i].scaled = last.scaled

C8_Witness ==
    /\ last.op = "predict" /\ last.exc = NoExc
    /\ last.return_std /\ ~last.scaled
    /\ Len(last.X) >= 1

\* C9: fit on an adapter whose base estimator or uncertainty estimator is
\* None raises the configuration error, in both variants; the error reaches
\* the caller of fit, and no step of the fit is repeated.
C9_AbsentCollaborator ==
    (last.op = "fit" /\ (Me.base_estimator = PyNone \/ Me.std_estimator = PyNone))
        => /\ ConfigurationError(last.exc)
           /\ last.ret = NoRet
           /\ \A i, j \in DOMAIN last.calls :
                last.calls[i].callee = last.calls[j].callee => i = j

C9_Witness ==
    /\ last.op = "fit"
    /\ Me.cls = "MisicRegressor"
    /\ Me.base_estimator # PyNone /\ Me.std_estimator = PyNone
    /\ last.exc = AttributeError("NoneType", "update")


\* C3: constructing an adapter with an adapter of the same variant as
\* base_estimator gives the new adapter the original's base_estimator and
\* std_estimator (the std_estimator argument is ignored), so that its
\* base_estimator is not an adapter; a base_estimator argument that is not an
\* adapter is stored as given, with the std_estimator argument.
C3_Unwrap ==
    last.op = "construct" =>
        LET arg == last.base_arg
        IN /\ (arg.kind = "adapter" /\ adapters[arg.id].cls = Me.cls) =>
                /\ Me.base_estimator = adapters[arg.id].base_estimator
                /\ Me.std_estimator = adapters[arg.id].std_estimator
                /\ Me.base_estimator.kind # "adapter"
           /\ arg.kind # "adapter" =>
                /\ Me.base_estimator = arg
                /\ Me.std_estimator = last.std_arg

\* What adapter a shows of the state it relies on.
BaseConfig(a) == IF Target(adapters, a.base_estimator) = PyNone THEN DefaultParams
                 ELSE estimators[Target(adapters, a.base_estimator).id]
StdState(a) == IF a.std_estimator = PyNone THEN NoStdState
               ELSE stds[a.std_estimator.id]

\* C4 as stated: fit and set_params on one adapter leave every other
\* adapter's base-estimator configuration, fitted ensemble and
\* uncertainty-estimator state as they were.
C4_NothingShared ==
    [][\A b \in DOMAIN adapters :
        (last'.op \in {"fit", "set_params"} /\ last'.self # b)
            => /\ adapters'[b].regressor_ = adapters[b].regressor_
               /\ BaseConfig(adapters[b])' = BaseConfig(adapters[b])
               /\ StdState(adapters[b])' = StdState(adapters[b])]_vars

\* C4, amended: state is shared between two adapters exactly through the
\* collaborator objects both refer to.  For a fit or set_params on adapter a
\* and any other adapter b:
\*   - b's own fields (fitted ensemble, random_state, cat_idx, references to
\*     its collaborators) stay as they were, so b's point predictions do not
\*     change;
\*   - set_params changes no uncertainty-estimator state;
\*   - only the base estimator a's calls arrive at changes configuration, and
\*     only a's uncertainty estimator changes state, and that only in fit: an
\*     adapter b arriving at another base estimator keeps its base-estimator
\*     configuration, and an adapter b with another uncertainty estimator
\*     keeps its uncertainty state and its predict(X, return_std=True)
\*     results;
\*   - when a and b arrive at the same base estimator, b's base-estimator
\*     configuration becomes what a's call sets; when they refer to the same
\*     uncertainty estimator, a fit on a that succeeds leaves b's
\*     uncertainty state holding that fit's (X, y).
C4_SharedOnlyByReference ==
    [][\A b \in DOMAIN adapters :
        LET a == last'.self
            mine == Target(adapters, AdapterRef(a))
            arriving == IF last'.op = "fit"
                        THEN ArrivingKw(adapters[a].base_estimator,
                                        FitKw(adapters[a].random_state))
                        ELSE WithDefault(last'.options)
            SamePredictions(return_std) ==
                \A X \in PredictInputs :
                    LET before == Result(PredictCall(Heap, b, X, return_std, TRUE))
                        after == Result(PredictCall(Heap', b, X, return_std, TRUE))
                    IN before.exc = after.exc /\ before.ret = after.ret
        IN (last'.op \in {"fit", "set_params"} /\ a # b)
            => /\ adapters'[b] = adapters[b]
               /\ SamePredictions(FALSE)
               /\ last'.op = "set_params" => stds' = stds
               /\ \A j \in DOMAIN estimators :
                    estimators'[j] # estimators[j] => mine = EstRef(j)
               /\ \A k \in DOMAIN stds :
                    stds'[k] # stds[k]
                        => last'.op = "fit" /\ adapters[a].std_estimator = StdRef(k)
               /\ Target(adapters, AdapterRef(b)) # mine
                    => BaseConfig(adapters[b])' = BaseConfig(adapters[b])
               /\ (adapters[b].std_estimator # adapters[a].std_estimator
                        \/ last'.op = "set_params")
                    => /\ StdState(adapters[b])' = StdState(adapters[b])
                       /\ SamePredictions(TRUE)
               /\ (Target(adapters, AdapterRef(b)) = mine /\ mine # PyNone)
                    => BaseConfig(adapters[b])'
                         = MergeParams(BaseConfig(adapters[b]), arriving)
               /\ (adapters[b].std_estimator = adapters[a].std_estimator
                        /\ adapters[a].std_estimator # PyNone
                        /\ last'.op = "fit" /\ last'.exc = NoExc)
                    => /\ StdState(adapters[b])'.updated
                       /\ StdState(adapters[b])'.data = last'.data]_vars

C4_Witness ==
    /\ Len(adapters) = 2
    /\ adapters[1].base_estimator = adapters[2].base_estimator
    /\ adapters[1].std_estimator = adapters[2].std_estimator
    /\ Fitted(adapters[1]) /\ Fitted(adapters[2])
    /\ adapters[1].regressor_.booster.data # adapters[2].regressor_.booster.data
    /\ last.op = "fit" /\ last.self = 2 /\ last.exc = NoExc

\* C6: an adapter starts unfitted and becomes fitted only through a fit that
\* succeeds; every fit that succeeds leaves as fitted ensemble a clone of the
\* base estimator, distinct from it, trained on that call's (X, y) alone.
C6_Lifecycle ==
    /\ \A a \in DOMAIN adapters : ~Fitted(adapters[a])
    /\ [][\A a \in DOMAIN adapters :
            /\ (~Fitted(adapters[a]) /\ Fitted(adapters'[a]))
                  => last'.op = "fit" /\ last'.self = a /\ last'.exc = NoExc
            /\ (last'.op = "fit" /\ last'.self = a /\ last'.exc = NoExc)
                  => /\ Fitted(adapters'[a])
                     /\ adapters'[a].regressor_.params = BaseConfig(adapters[a])'
                     /\ adapters'[a].regressor_.booster.data = last'.data
                     /\ \E i \in DOMAIN last'.calls : last'.calls[i].callee = "clone"]_vars

\* C10: whenever predict(X, return_std=True) returns, the ensemble behind the
\* mean and the uncertainty state behind the std come from the (X, y) of one
\* and the same fit, whatever fits failed before.
C10_SameFit ==
    (last.op = "predict" /\ last.return_std /\ last.exc = NoExc)
        => /\ StdState(Me).updated
           /\ Me.regressor_.booster.data = StdState(Me).data


====
